---- MODULE Spec2Model ----
(***************************************************************************)
(* Token-refresh coordination of the Api client (src/unnamed/part_001).    *)
(*                                                                         *)
(* The file holds two Api classes: the "throw" variant (lines 81-251) and  *)
(* the "redirect" variant (lines 328-506).  One instance of either class   *)
(* is modelled; which one is fixed by Init (variable variant).             *)
(*                                                                         *)
(* Scheduling is the JavaScript event loop.  A reply of the provider       *)
(* ($fetch, a network call) is a task: it is delivered only when the       *)
(* microtask queue (variable jobs) is empty.  Settling the refresh promise *)
(* queues the reactions of all its awaiters, in the order in which they    *)
(* began to await, and they run as consecutive microtasks.  A new call of  *)
(* get/post/... is user code and may run between any two microtasks.       *)
(***************************************************************************)
EXTENDS Integers, Sequences, FiniteSets, TLC

\* ------------------------------------------------------------------ bounds
MaxReq == 2

Reqs == 1..MaxReq

\* ------------------------------------------------------ program constants
UNAUTHORIZED == 401
UNPROCESSABLE == 422

HTTP_NOT_FATAL_ERRORS == {UNAUTHORIZED, UNPROCESSABLE}

\* this.token is undefined / null / '' (falsy)
NoToken == 0
\* the token the instance is constructed with when apiOptions.token is given
InitialToken == 1
\* error.status / error.statusCode is undefined
NoStatus == 0
\* this.refresh === null
NoRefresh == 0

Variants == {"throw", "redirect"}
Methods == {"get", "post"}
\* what the provider can throw: a FetchError, an H3Error, anything else
Kinds == {"Fetch", "H3", "Other"}
\* the statuses an error may carry: none, the two non-fatal ones, a fatal one
Statuses == {NoStatus, UNAUTHORIZED, UNPROCESSABLE, 500}
\* a FetchError may lack a status; an H3Error has a statusCode; others have neither
Errors ==
    [kind : {"Fetch"}, status : Statuses]
    \cup [kind : {"H3"}, status : {UNAUTHORIZED}]
    \cup [kind : {"Other"}, status : {NoStatus}]
\* what a retry can fail with; response() does not look at it: a 401 and a failure
\* without a status stand for all
RetryErrors == {e \in Errors : e.kind = "Fetch" /\ e.status \in {NoStatus, UNAUTHORIZED}}
\* what the refresh endpoint can fail with
RefreshErrors == {e \in Errors : e.kind = "Fetch" /\ e.status \in {UNAUTHORIZED, 500}}

VARIABLES
    variant,        \* which Api class the instance is
    refreshOptions, \* TRUE iff apiOptions.refresh was given
    token,          \* this.token
    cookie,         \* accessToken.value, the persisted cell of useAccessToken
    refresh,        \* this.refresh: NoRefresh, or the index in ops of the pending promise
    ops,            \* every promise handleRefreshToken has created, in creation order
    waiters,        \* requests awaiting the pending promise, in the order they began to await
    jobs,           \* the microtask queue: requests whose continuation is ready to run
    req,            \* per call of get/post/...: position, history and outcome
    navCount        \* calls of navigate(unauthorisedRedirectUrl, ...)

vars == <<variant, refreshOptions, token, cookie, refresh, ops, waiters, jobs, req, navCount>>

config == <<variant, refreshOptions>>

\* -------------------------------------------------------- pure functions

\* getHeaders(): the Authorization header, <<>> when there is none
getHeaders(tok) ==
    IF tok # NoToken THEN <<"Bearer", tok>> ELSE <<>>

\* isFatal with 401 as the only status that is not fatal
isFatal_Only401(status) == status # UNAUTHORIZED

\* const isFatal = !HTTP_NOT_FATAL_ERRORS.includes(status)
isFatal(status) == status \notin HTTP_NOT_FATAL_ERRORS

\* the guard of the catch block of response(): is the error handed to handleError?
Handled(v, method, kind) ==
    IF v = "throw"
    THEN kind \in {"Fetch", "H3"}
    ELSE IF method = "get" THEN kind = "Fetch" ELSE TRUE

\* handleError: status = error.status for a FetchError, error.statusCode for an H3Error
statusOf(kind, status) ==
    IF kind \in {"Fetch", "H3"} THEN status ELSE NoStatus

\* the token the refresh endpoint returns for the n-th refresh call: fresh each time
RefreshedToken(n) == InitialToken + n

\* what a call rejects with: its status, its fatal flag, what made it (createError,
\* the provider on a retry, the refresh call) and its data ("error.data": the data
\* of the error the provider threw; "none": no data)
NoError == [status |-> NoStatus, fatal |-> FALSE, src |-> "none", data |-> "none"]

\* createError({ fatal, statusCode, data })
createError(fatal, status, data) ==
    [status |-> status, fatal |-> fatal, src |-> "createError", data |-> data]

\* how the first attempt of a request failed, and what handleError found:
\* seen is the status handleError classified (NoStatus when it was never called),
\* during is this.refresh and hadToken whether this.token was set, both at the moment
\* the failure was handled
NoFail ==
    [kind |-> "none", status |-> NoStatus, seen |-> NoStatus, during |-> NoRefresh,
     hadToken |-> FALSE]

\* a call of get/post/...:
\*   pc      where it is: idle, preflight, sent, owner, follower, retry, resent, done
\*   calls   the provider calls made for it: the Authorization header of each, what
\*           this.token was and whether this.refresh was pending when it went out
\*   pre, op the promise awaited in the pre-flight wait / in handleError
\*   preTok, opTok  the token adopted when that await resumed
\*   out     none, value (the response), undefined, rejected; err what it rejected with
\*   navd    it called navigate
IdleReq ==
    [pc |-> "idle", method |-> "get", calls |-> <<>>, pre |-> NoRefresh,
     op |-> NoRefresh, role |-> "none", preTok |-> NoToken, opTok |-> NoToken,
     out |-> "none", err |-> NoError, navd |-> FALSE, fail |-> NoFail]

\* ------------------------------------------------------------------ Init
\* the instance is constructed with or without a token (apiOptions.token) and with
\* or without a refresh option; the cookie of useAccessToken holds a token or not
Init ==
    /\ variant \in Variants
    /\ refreshOptions \in BOOLEAN
    /\ token \in {NoToken, InitialToken}
    /\ cookie \in {NoToken, InitialToken}
    /\ refresh = NoRefresh
    /\ ops = <<>>
    /\ waiters = <<>>
    /\ jobs = <<>>
    /\ req = [r \in Reqs |-> IdleReq]
    /\ navCount = 0

\* request(): build the options with getHeaders() and call the provider
Send(r, rec, tok, nextpc) ==
    [rec EXCEPT !.pc = nextpc,
                !.calls = Append(@, [hdr |-> getHeaders(tok), tok |-> tok,
                                     pending |-> refresh # NoRefresh])]

\* response() without the pre-flight wait: the request goes out at once
Call_NoPreflight(r, m) ==
    /\ req[r].pc = "idle"
    /\ \A q \in Reqs : q < r => req[q].pc # "idle"
    /\ req' = [req EXCEPT ![r] = Send(r, [@ EXCEPT !.method = m], token, "sent")]
    /\ UNCHANGED <<config, token, cookie, refresh, ops, waiters, jobs, navCount>>

\* response(url, method, ...) up to its first suspension; calls are numbered in the
\* order in which they are made
Call(r, m) ==
    /\ req[r].pc = "idle"
    /\ \A q \in Reqs : q < r => req[q].pc # "idle"
    /\ LET me == [req[r] EXCEPT !.method = m]
       IN IF refresh # NoRefresh
          THEN /\ req' = [req EXCEPT ![r] = [me EXCEPT !.pc = "preflight", !.pre = refresh]]
               /\ waiters' = Append(waiters, r)
          ELSE /\ req' = [req EXCEPT ![r] = Send(r, me, token, "sent")]
               /\ UNCHANGED waiters
    /\ UNCHANGED <<config, token, cookie, refresh, ops, jobs, navCount>>

\* handleError without the check of this.refresh: every eligible 401 starts a refresh
handleErrorBranch_NoSingleFlight(v, status, hasRefresh, tok, rf) ==
    IF status = NoStatus THEN "false"
    ELSE IF status = UNAUTHORIZED /\ hasRefresh
         THEN IF v = "throw" /\ tok = NoToken THEN "noToken" ELSE "own"
         ELSE "throw"

\* handleError taking the refresh path whether or not refreshOptions is set
handleErrorBranch_IgnoreConfig(v, status, hasRefresh, tok, rf) ==
    IF status = NoStatus THEN "false"
    ELSE IF status = UNAUTHORIZED
         THEN IF v = "throw" /\ tok = NoToken THEN "noToken"
              ELSE IF rf = NoRefresh THEN "own" ELSE "follow"
         ELSE "throw"

\* handleError returning false, instead of throwing, for a status that is not fatal
handleErrorBranch_SwallowNonFatal(v, status, hasRefresh, tok, rf) ==
    IF status = NoStatus THEN "false"
    ELSE IF status = UNAUTHORIZED /\ hasRefresh
         THEN IF v = "throw" /\ tok = NoToken THEN "noToken"
              ELSE IF rf = NoRefresh THEN "own" ELSE "follow"
         ELSE IF status \in HTTP_NOT_FATAL_ERRORS THEN "false" ELSE "throw"

\* which way handleError goes for a status, given refreshOptions, this.token, this.refresh
handleErrorBranch(v, status, hasRefresh, tok, rf) ==
    IF status = NoStatus THEN "false"
    ELSE IF status = UNAUTHORIZED /\ hasRefresh
         THEN IF v = "throw" /\ tok = NoToken THEN "noToken"
              ELSE IF rf = NoRefresh THEN "own" ELSE "follow"
         ELSE "throw"

\* handleRefreshToken up to its await: the refresh call goes out with getHeaders()
handleRefreshToken(r) ==
    [st |-> "pending", tok |-> NoToken, hdr |-> getHeaders(token), sentTok |-> token,
     owner |-> r, err |-> NoError]

Settle(rec, out, err) == [rec EXCEPT !.pc = "done", !.out = out, !.err = err]

\* the provider resolves the first attempt: return await request()
ReplyOk(r) ==
    /\ jobs = <<>>
    /\ req[r].pc = "sent"
    /\ req' = [req EXCEPT ![r] = Settle(@, "value", NoError)]
    /\ UNCHANGED <<config, token, cookie, refresh, ops, waiters, jobs, navCount>>

\* the provider rejects the first attempt with e: the catch block of response(),
\* and handleError up to its first suspension
ReplyFail(r, e) ==
    /\ jobs = <<>>
    /\ req[r].pc = "sent"
    /\ LET handled == Handled(variant, req[r].method, e.kind)
           status == statusOf(e.kind, e.status)
           me == [req[r] EXCEPT !.fail =
                     [kind |-> e.kind, status |-> e.status,
                      seen |-> IF handled THEN status ELSE NoStatus,
                      during |-> refresh, hadToken |-> token # NoToken]]
           branch == IF handled
                     THEN handleErrorBranch(variant, status, refreshOptions, token, refresh)
                     ELSE "swallow"
       IN CASE branch \in {"swallow", "false"} ->
                 /\ req' = [req EXCEPT ![r] = Settle(me, "undefined", NoError)]
                 /\ UNCHANGED <<refresh, ops, waiters>>
            [] branch \in {"noToken", "throw"} ->
                 /\ req' = [req EXCEPT ![r] =
                               Settle(me, "rejected",
                                      createError(isFatal(status), status,
                                                  IF branch = "throw" THEN "error.data" ELSE "none"))]
                 /\ UNCHANGED <<refresh, ops, waiters>>
            [] branch = "own" ->
                 /\ ops' = Append(ops, handleRefreshToken(r))
                 /\ refresh' = Len(ops) + 1
                 /\ waiters' = Append(waiters, r)
                 /\ req' = [req EXCEPT ![r] = [me EXCEPT !.pc = "owner", !.role = "owner", !.op = Len(ops) + 1]]
            [] branch = "follow" ->
                 /\ waiters' = Append(waiters, r)
                 /\ req' = [req EXCEPT ![r] = [me EXCEPT !.pc = "follower", !.role = "follower", !.op = refresh]]
                 /\ UNCHANGED <<refresh, ops>>
    /\ UNCHANGED <<config, token, cookie, jobs, navCount>>

\* handleRefreshToken without accessToken.value = token: the cookie is not written
RefreshOk_NoCookie ==
    /\ jobs = <<>>
    /\ refresh # NoRefresh
    /\ LET t == RefreshedToken(refresh)
       IN /\ token' = t
          /\ ops' = [ops EXCEPT ![refresh] = [@ EXCEPT !.st = "resolved", !.tok = t]]
    /\ refresh' = NoRefresh
    /\ jobs' = jobs \o waiters
    /\ waiters' = <<>>
    /\ UNCHANGED <<config, cookie, req, navCount>>

\* handleRefreshToken leaving this.token to the callers that await the promise: it
\* writes the cookie and resolves, without this.token = token
RefreshOk_NoTokenWrite ==
    /\ jobs = <<>>
    /\ refresh # NoRefresh
    /\ LET t == RefreshedToken(refresh)
       IN /\ cookie' = t
          /\ ops' = [ops EXCEPT ![refresh] = [@ EXCEPT !.st = "resolved", !.tok = t]]
    /\ refresh' = NoRefresh
    /\ jobs' = jobs \o waiters
    /\ waiters' = <<>>
    /\ UNCHANGED <<config, token, req, navCount>>

\* the provider resolves the refresh call: the rest of handleRefreshToken
RefreshOk ==
    /\ jobs = <<>>
    /\ refresh # NoRefresh
    /\ LET t == RefreshedToken(refresh)
       IN /\ token' = t
          /\ cookie' = t
          /\ ops' = [ops EXCEPT ![refresh] = [@ EXCEPT !.st = "resolved", !.tok = t]]
    /\ refresh' = NoRefresh
    /\ jobs' = jobs \o waiters
    /\ waiters' = <<>>
    /\ UNCHANGED <<config, req, navCount>>

\* handleRefreshToken clearing this.refresh on success only, not in a finally
RefreshFail_NoClear(e) ==
    /\ jobs = <<>>
    /\ refresh # NoRefresh
    /\ ops[refresh].st = "pending"
    /\ ops' = [ops EXCEPT ![refresh] =
                  [@ EXCEPT !.st = "rejected", !.err = [status |-> e.status, fatal |-> FALSE, src |-> "refresh",
                                                     data |-> "error.data"]]]
    /\ jobs' = jobs \o waiters
    /\ waiters' = <<>>
    /\ UNCHANGED <<config, token, cookie, refresh, req, navCount>>

\* handleRefreshToken catching the failure of the refresh call without reject(error):
\* this.refresh is cleared but the promise never settles
RefreshFail_NoReject(e) ==
    /\ jobs = <<>>
    /\ refresh # NoRefresh
    /\ refresh' = NoRefresh
    /\ waiters' = <<>>
    /\ UNCHANGED <<config, token, cookie, ops, jobs, req, navCount>>

\* handleRefreshToken dropping the token and the cookie when the refresh call fails
RefreshFail_ClearToken(e) ==
    /\ jobs = <<>>
    /\ refresh # NoRefresh
    /\ ops' = [ops EXCEPT ![refresh] =
                  [@ EXCEPT !.st = "rejected", !.err = [status |-> e.status, fatal |-> FALSE, src |-> "refresh",
                                                     data |-> "error.data"]]]
    /\ refresh' = NoRefresh
    /\ token' = NoToken
    /\ cookie' = NoToken
    /\ jobs' = jobs \o waiters
    /\ waiters' = <<>>
    /\ UNCHANGED <<config, req, navCount>>

\* the provider rejects the refresh call with e: catch and finally of handleRefreshToken
RefreshFail(e) ==
    /\ jobs = <<>>
    /\ refresh # NoRefresh
    /\ ops' = [ops EXCEPT ![refresh] =
                  [@ EXCEPT !.st = "rejected", !.err = [status |-> e.status, fatal |-> FALSE, src |-> "refresh",
                                                     data |-> "error.data"]]]
    /\ refresh' = NoRefresh
    /\ jobs' = jobs \o waiters
    /\ waiters' = <<>>
    /\ UNCHANGED <<config, token, cookie, req, navCount>>

\* the pre-flight wait with a catch that swallows the failure of the refresh
ResumePreflight_Swallow(r) ==
    LET o == ops[req[r].pre]
    IN /\ IF o.st = "resolved"
          THEN /\ token' = o.tok
               /\ req' = [req EXCEPT ![r] = Send(r, [@ EXCEPT !.preTok = o.tok], o.tok, "sent")]
          ELSE /\ req' = [req EXCEPT ![r] = Send(r, @, token, "sent")]
               /\ UNCHANGED token
       /\ jobs' = Tail(jobs)
       /\ UNCHANGED navCount

\* the pre-flight wait treating the failure of the refresh the way a follower does:
\* the request resolves to undefined
ResumePreflight_Soft(r) ==
    LET o == ops[req[r].pre]
    IN /\ IF o.st = "resolved"
          THEN /\ token' = o.tok
               /\ req' = [req EXCEPT ![r] = Send(r, [@ EXCEPT !.preTok = o.tok], o.tok, "sent")]
          ELSE /\ req' = [req EXCEPT ![r] = Settle(@, "undefined", NoError)]
               /\ UNCHANGED token
       /\ jobs' = Tail(jobs)
       /\ UNCHANGED navCount

\* a request resumes from the await of the pre-flight wait of response()
ResumePreflight(r) ==
    LET o == ops[req[r].pre]
    IN /\ IF o.st = "resolved"
          THEN /\ token' = o.tok
               /\ req' = [req EXCEPT ![r] = Send(r, [@ EXCEPT !.preTok = o.tok], o.tok, "sent")]
          ELSE /\ req' = [req EXCEPT ![r] = Settle(@, "rejected", o.err)]
               /\ UNCHANGED token
       /\ jobs' = Tail(jobs)
       /\ UNCHANGED navCount

\* the owner rethrowing what the refresh call failed with
ResumeOwner_Rethrow(r) ==
    LET o == ops[req[r].op]
    IN IF o.st = "resolved"
       THEN /\ token' = o.tok
            /\ req' = [req EXCEPT ![r] = [@ EXCEPT !.pc = "retry", !.opTok = o.tok]]
            /\ jobs' = Append(Tail(jobs), r)
            /\ UNCHANGED navCount
       ELSE /\ req' = [req EXCEPT ![r] = Settle(@, "rejected", o.err)]
            /\ jobs' = Tail(jobs)
            /\ UNCHANGED <<token, navCount>>

\* the owner resumes from await this.refresh in handleError
ResumeOwner(r) ==
    LET o == ops[req[r].op]
    IN IF o.st = "resolved"
       THEN /\ token' = o.tok
            /\ req' = [req EXCEPT ![r] = [@ EXCEPT !.pc = "retry", !.opTok = o.tok]]
            /\ jobs' = Append(Tail(jobs), r)
            /\ UNCHANGED navCount
       ELSE /\ IF variant = "throw"
               THEN /\ req' = [req EXCEPT ![r] =
                                  Settle(@, "rejected", createError(isFatal(UNAUTHORIZED), UNAUTHORIZED, "none"))]
                    /\ UNCHANGED navCount
               ELSE /\ navCount' = navCount + 1
                    /\ req' = [req EXCEPT ![r] = Settle([@ EXCEPT !.navd = TRUE], "undefined", NoError)]
            /\ jobs' = Tail(jobs)
            /\ UNCHANGED token

\* a follower handling the failure of the refresh the way the owner does
ResumeFollower_Hard(r) ==
    LET o == ops[req[r].op]
    IN IF o.st = "resolved"
       THEN /\ token' = o.tok
            /\ req' = [req EXCEPT ![r] = [@ EXCEPT !.pc = "retry", !.opTok = o.tok]]
            /\ jobs' = Append(Tail(jobs), r)
            /\ UNCHANGED navCount
       ELSE /\ IF variant = "throw"
               THEN /\ req' = [req EXCEPT ![r] =
                                  Settle(@, "rejected", createError(isFatal(UNAUTHORIZED), UNAUTHORIZED, "none"))]
                    /\ UNCHANGED navCount
               ELSE /\ navCount' = navCount + 1
                    /\ req' = [req EXCEPT ![r] = Settle([@ EXCEPT !.navd = TRUE], "undefined", NoError)]
            /\ jobs' = Tail(jobs)
            /\ UNCHANGED token

\* a follower resumes from await this.refresh in handleError
ResumeFollower(r) ==
    LET o == ops[req[r].op]
    IN /\ IF o.st = "resolved"
          THEN /\ token' = o.tok
               /\ req' = [req EXCEPT ![r] = [@ EXCEPT !.pc = "retry", !.opTok = o.tok]]
               /\ jobs' = Append(Tail(jobs), r)
          ELSE /\ req' = [req EXCEPT ![r] = Settle(@, "undefined", NoError)]
               /\ jobs' = Tail(jobs)
               /\ UNCHANGED token
       /\ UNCHANGED navCount

\* the retry re-sending the options built for the first attempt
Retry_ReuseHeaders(r) ==
    /\ req' = [req EXCEPT ![r] = [@ EXCEPT !.pc = "resent", !.calls = Append(@, @[1])]]
    /\ jobs' = Tail(jobs)
    /\ UNCHANGED <<token, navCount>>

\* handleError returned true: if (retry) return await request()
Retry(r) ==
    /\ req' = [req EXCEPT ![r] = Send(r, @, token, "resent")]
    /\ jobs' = Tail(jobs)
    /\ UNCHANGED <<token, navCount>>

\* the next microtask runs
RunJob ==
    /\ jobs # <<>>
    /\ LET r == Head(jobs)
       IN CASE req[r].pc = "preflight" -> ResumePreflight(r)
            [] req[r].pc = "owner" -> ResumeOwner(r)
            [] req[r].pc = "follower" -> ResumeFollower(r)
            [] req[r].pc = "retry" -> Retry(r)
    /\ UNCHANGED <<config, cookie, refresh, ops, waiters>>

\* the provider resolves the retry
RetryOk(r) ==
    /\ jobs = <<>>
    /\ req[r].pc = "resent"
    /\ req' = [req EXCEPT ![r] = Settle(@, "value", NoError)]
    /\ UNCHANGED <<config, token, cookie, refresh, ops, waiters, jobs, navCount>>

\* the retry wrapped in the same catch as the first attempt: a failed retry is
\* attempted again
RetryFail_Again(r, e) ==
    /\ jobs = <<>>
    /\ req[r].pc = "resent"
    /\ Len(req[r].calls) < 4
    /\ req' = [req EXCEPT ![r] = Send(r, @, token, "resent")]
    /\ UNCHANGED <<config, token, cookie, refresh, ops, waiters, jobs, navCount>>

\* the provider rejects the retry with e: nothing catches it
RetryFail(r, e) ==
    /\ jobs = <<>>
    /\ req[r].pc = "resent"
    /\ req' = [req EXCEPT ![r] =
                  Settle(@, "rejected", [status |-> e.status, fatal |-> FALSE, src |-> "transport",
                                         data |-> "error.data"])]
    /\ UNCHANGED <<config, token, cookie, refresh, ops, waiters, jobs, navCount>>

Next ==
    \/ \E r \in Reqs, m \in Methods : Call(r, m)
    \/ \E r \in Reqs : ReplyOk(r)
    \/ \E r \in Reqs, e \in Errors : ReplyFail(r, e)
    \/ RefreshOk
    \/ \E e \in RefreshErrors : RefreshFail(e)
    \/ RunJob
    \/ \E r \in Reqs : RetryOk(r)
    \/ \E r \in Reqs, e \in RetryErrors : RetryFail(r, e)

Spec == Init /\ [][Next]_vars

\* the event loop runs every microtask that is queued, and the provider answers
\* every call it was given: each first attempt, each retry and each refresh call
FairSpec ==
    /\ Spec
    /\ WF_vars(RunJob)
    /\ WF_vars(RefreshOk \/ \E e \in RefreshErrors : RefreshFail(e))
    /\ \A r \in Reqs : WF_vars(ReplyOk(r) \/ \E e \in Errors : ReplyFail(r, e))
    /\ \A r \in Reqs : WF_vars(RetryOk(r) \/ \E e \in RetryErrors : RetryFail(r, e))

\* ------------------------------------------------------------------ claims

\* the promises of handleRefreshToken whose refresh call is still outstanding
PendingOps == {i \in DOMAIN ops : ops[i].st = "pending"}

\* the first attempt of r failed and handleError classified the failure as a 401
\* on an instance with a refresh option
Saw401(r) == req[r].fail.seen = UNAUTHORIZED /\ refreshOptions

\* C1: at most one refresh promise is pending at any time, it is the one held in
\* this.refresh, and every caller whose 401 is handled while it is pending awaits
\* that promise, created by another caller, instead of creating its own.
C1_AtMostOnePendingRefresh ==
    /\ Cardinality(PendingOps) <= 1
    /\ \A i \in PendingOps : refresh = i
    /\ refresh # NoRefresh => refresh \in PendingOps
    /\ \A r \in Reqs :
          (Saw401(r) /\ req[r].fail.during # NoRefresh)
              => /\ req[r].role = "follower"
                 /\ req[r].op = req[r].fail.during
                 /\ ops[req[r].op].owner # r

\* a follower is waiting on the pending refresh
C1_Witness ==
    \E r \in Reqs : req[r].pc = "follower" /\ refresh # NoRefresh /\ req[r].op = refresh

\* r is one of the callers awaiting a promise of handleRefreshToken
Waiting(r) == req[r].pc \in {"preflight", "owner", "follower"}

\* r made a second provider call
Retried(r) == Len(req[r].calls) = 2

\* the first attempt of r failed with a 401 that handleError classified, on an
\* instance with a refresh option and a token
Eligible(r) == Saw401(r) /\ req[r].fail.hadToken

\* C2 as stated: two requests that were in flight together and each got an eligible
\* 401 share one refresh call, and are retried with the one token it returned.
\* (In flight together: q went out with the token r went out with, so before the
\* refresh that r awaited replaced that token; r settled only after that refresh
\* did, and the 401 of q was not handled before it, q awaiting no earlier one.)
C2_Original ==
    \A r, q \in Reqs :
        (/\ r # q /\ Eligible(r) /\ Eligible(q)
         /\ req[r].pre = NoRefresh /\ req[q].pre = NoRefresh
         /\ req[r].op \in DOMAIN ops /\ ops[req[r].op].st = "resolved"
         /\ req[q].op >= req[r].op
         /\ req[q].calls[1].hdr = req[r].calls[1].hdr)
            => /\ req[r].op = req[q].op
               /\ (Retried(r) /\ Retried(q)) => req[r].calls[2].hdr = req[q].calls[2].hdr

\* C2 (amended): an eligible 401 handled while no refresh is pending makes its
\* request the owner of a new refresh call; every eligible 401 handled while that
\* call is outstanding joins it; there is one refresh call per owner and no other;
\* and each of these requests that is retried carries the token that call returned.
C2_SingleFlight ==
    /\ \A r \in Reqs :
          Eligible(r) =>
              /\ req[r].op \in DOMAIN ops
              /\ req[r].fail.during = NoRefresh => ops[req[r].op].owner = r
              /\ req[r].fail.during # NoRefresh => req[r].op = req[r].fail.during
              /\ Retried(r) => /\ ops[req[r].op].st = "resolved"
                                /\ req[r].calls[2].hdr = <<"Bearer", ops[req[r].op].tok>>
    /\ \A i \in DOMAIN ops :
          /\ ops[i].owner \in Reqs
          /\ req[ops[i].owner].op = i
          /\ req[ops[i].owner].fail.during = NoRefresh
    /\ \A r, q \in Reqs :
          (Eligible(r) /\ Eligible(q) /\ req[q].fail.during = req[r].op)
              => req[q].op = req[r].op

\* an owner and a follower of one refresh call have both been retried
C2_Witness ==
    \E r, q \in Reqs :
        /\ r # q /\ Eligible(r) /\ Eligible(q)
        /\ req[r].role = "owner" /\ req[q].fail.during = req[r].op
        /\ Retried(r) /\ Retried(q)

\* C3: every caller that awaited a refresh promise gets its outcome: while it is
\* pending all of them wait; once it is resolved each has adopted its token; once
\* it is rejected none has adopted a token, a pre-flight waiter has rejected with
\* the refresh error and an owner or follower has settled without a retry.
C3_SameOutcome ==
    \A r \in Reqs :
        /\ req[r].pre # NoRefresh =>
              LET o == ops[req[r].pre]
              IN /\ o.st = "pending" => req[r].pc = "preflight"
                 /\ (o.st = "resolved" /\ req[r].pc # "preflight") => req[r].preTok = o.tok
                 /\ (o.st = "rejected" /\ req[r].pc # "preflight")
                        => /\ req[r].preTok = NoToken
                           /\ req[r].pc = "done" /\ req[r].out = "rejected" /\ req[r].err = o.err
        /\ req[r].op # NoRefresh =>
              LET o == ops[req[r].op]
              IN /\ o.st = "pending" => req[r].pc \in {"owner", "follower"}
                 /\ (o.st = "resolved" /\ ~Waiting(r)) => req[r].opTok = o.tok
                 /\ (o.st = "rejected" /\ ~Waiting(r))
                        => /\ req[r].opTok = NoToken
                           /\ req[r].pc = "done" /\ ~Retried(r) /\ req[r].out # "value"

\* the owner of a refresh and a pre-flight waiter of the same refresh have both
\* resumed after it failed
C3_Witness ==
    \E r, q \in Reqs :
        /\ req[r].role = "owner" /\ req[q].pre = req[r].op
        /\ ops[req[r].op].st = "rejected"
        /\ req[r].pc = "done" /\ req[q].pc = "done"

\* C4: a request issued while a refresh is pending makes no provider call before
\* the refresh settles, none at all when it fails, and its first call carries the
\* refreshed token when it succeeds; no request or retry goes out while a refresh
\* is pending.
C4_PreflightDrain ==
    \A r \in Reqs :
        /\ \A k \in DOMAIN req[r].calls : ~req[r].calls[k].pending
        /\ req[r].pre # NoRefresh =>
              LET o == ops[req[r].pre]
              IN /\ o.st # "resolved" => req[r].calls = <<>>
                 /\ req[r].calls # <<>> => req[r].calls[1].hdr = <<"Bearer", o.tok>>

\* a request that waited in pre-flight has gone out after the refresh succeeded
C4_Witness ==
    \E r \in Reqs :
        req[r].pre # NoRefresh /\ ops[req[r].pre].st = "resolved" /\ req[r].calls # <<>>

\* the refresh promises that were rejected and whose owner has resumed
FailedOps == {i \in DOMAIN ops : ops[i].st = "rejected" /\ req[ops[i].owner].pc = "done"}

\* the followers of promise i that have resumed
DoneFollowers(i) ==
    {r \in Reqs : req[r].role = "follower" /\ req[r].op = i /\ req[r].pc = "done"}

\* C5 as stated: the owner of a failed refresh navigates and throws, once per failed
\* refresh; its followers resolve to undefined and neither throw nor navigate.
C5_Original ==
    /\ \A i \in FailedOps :
          /\ req[ops[i].owner].navd /\ req[ops[i].owner].out = "rejected"
          /\ \A r \in DoneFollowers(i) : req[r].out = "undefined" /\ ~req[r].navd
    /\ navCount = Cardinality(FailedOps)

\* C5 (amended): per failed refresh the owner takes one terminal action, once: in
\* the throw variant it rejects and nothing navigates, in the redirect variant it
\* navigates and resolves to undefined; no other caller that awaited the promise
\* in handleError rejects or navigates: every follower resolves to undefined.
C5_FollowerSoft ==
    /\ \A i \in FailedOps :
          LET w == ops[i].owner
          IN /\ variant = "throw" => req[w].out = "rejected" /\ ~req[w].navd
             /\ variant = "redirect" => req[w].out = "undefined" /\ req[w].navd
             /\ \A r \in DoneFollowers(i) :
                   req[r].out = "undefined" /\ ~req[r].navd /\ req[r].err = NoError
    /\ navCount = IF variant = "redirect" THEN Cardinality(FailedOps) ELSE 0
    /\ \A r \in Reqs : req[r].navd => r \in {ops[i].owner : i \in FailedOps}

\* the owner and a follower of a failed refresh have both resumed
C5_Witness ==
    \E i \in FailedOps : DoneFollowers(i) # {}

\* C6 as stated: when the refresh of an eligible 401 fails, navigation is invoked and
\* the owner rejects with an error of status 401 that is not the refresh error.
C6_Original ==
    \A i \in FailedOps :
        LET w == ops[i].owner
        IN Eligible(w) =>
              /\ req[w].navd
              /\ req[w].out = "rejected"
              /\ req[w].err.status = UNAUTHORIZED /\ req[w].err.src # "refresh"

\* C6 (amended): when the refresh of an eligible 401 fails, whatever it fails with,
\* the owner in the throw variant rejects with createError({fatal: false,
\* statusCode: 401}) and does not navigate, and in the redirect variant navigates
\* and resolves to undefined; in neither does it receive the refresh error.
C6_RefreshFailureOwner ==
    \A i \in FailedOps :
        LET w == ops[i].owner
        IN Eligible(w) =>
              /\ variant = "throw" =>
                    /\ req[w].out = "rejected"
                    /\ req[w].err = [status |-> UNAUTHORIZED, fatal |-> FALSE,
                                      src |-> "createError", data |-> "none"]
                    /\ ~req[w].navd
              /\ variant = "redirect" =>
                    req[w].out = "undefined" /\ req[w].err = NoError /\ req[w].navd
              /\ req[w].err # ops[i].err

\* the owner of a refresh that failed with status 500 has resumed, in the throw variant
C6_Witness ==
    \E i \in FailedOps :
        Eligible(ops[i].owner) /\ ops[i].err.status = 500 /\ variant = "throw"

C8_Original ==
    \A r \in Reqs :
        (Saw401(r) /\ ~req[r].fail.hadToken) =>
            /\ req[r].pc = "done" /\ req[r].out = "rejected"
            /\ req[r].op = NoRefresh /\ req[r].role = "none"
            /\ Len(req[r].calls) = 1

\* C9: a settled refresh promise is never the one in this.refresh, which is null
\* whenever a waiter resumes; so a 401 handled while none is pending (with a
\* token, which the throw variant always has once it has refreshed) makes its
\* request the owner of a promise of its own, created after all earlier ones settled.
C9_CleanRearming ==
    /\ \A i \in DOMAIN ops : ops[i].st # "pending" => refresh # i
    /\ jobs # <<>> => refresh = NoRefresh
    /\ (variant = "throw" /\ ops # <<>>) => token # NoToken
    /\ \A r \in Reqs :
          (Saw401(r) /\ req[r].fail.during = NoRefresh /\ (variant = "throw" => req[r].fail.hadToken))
              => /\ req[r].role = "owner"
                 /\ req[r].op \in DOMAIN ops /\ ops[req[r].op].owner = r
                 /\ \A i \in 1..(req[r].op - 1) : ops[i].owner # r
    /\ \A i \in DOMAIN ops : i < Len(ops) => ops[i].st # "pending"

\* after a first refresh settled, a later 401 of another request created a second one
C9_Witness ==
    /\ Len(ops) = 2
    /\ ops[1].st = "rejected"
    /\ ops[2].owner # ops[1].owner

\* C10: a request makes at most two provider calls, the second only after the
\* refresh it awaited in handleError succeeded; a retry that fails rejects with the
\* error of the retry, and the request neither creates nor joins another refresh.
C10_SingleRetry ==
    \A r \in Reqs :
        /\ Len(req[r].calls) <= 2
        /\ Retried(r) =>
              /\ req[r].role \in {"owner", "follower"}
              /\ ops[req[r].op].st = "resolved" /\ req[r].opTok = ops[req[r].op].tok
              /\ req[r].pc \in {"resent", "done"}
              /\ req[r].pc = "done" =>
                    /\ req[r].out \in {"value", "rejected"}
                    /\ req[r].out = "rejected" => req[r].err.src = "transport"
        /\ Cardinality({i \in DOMAIN ops : ops[i].owner = r}) <= 1
        /\ req[r].role = "follower" => \A i \in DOMAIN ops : ops[i].owner # r

\* a retry has failed with a 401 and the request has rejected with it
C10_Witness ==
    \E r \in Reqs :
        /\ Retried(r) /\ req[r].pc = "done" /\ req[r].out = "rejected"
        /\ req[r].err.status = UNAUTHORIZED

\* the first attempt of r failed with an error that yields no status code: one that
\* is neither a FetchError nor an H3Error, or a FetchError without a status
Statusless(r) ==
    /\ req[r].fail.kind # "none"
    /\ statusOf(req[r].fail.kind, req[r].fail.status) = NoStatus

\* C11 as stated: a failure that yields no status code rejects the promise of the
\* request at once, with no retry and no refresh.
C11_Original ==
    \A r \in Reqs :
        Statusless(r) =>
            /\ req[r].pc = "done" /\ req[r].out = "rejected"
            /\ Len(req[r].calls) = 1 /\ req[r].op = NoRefresh

\* C12: the step in which a refresh call succeeds writes the token it returned to
\* this.token and to the cookie and resolves the promise with it; and the retry of
\* the owner of a resolved promise carries Authorization: Bearer <that token>.
C12_RefreshWritesThrough ==
    /\ [][(refresh # NoRefresh /\ ops'[refresh].st = "resolved")
             => /\ ops'[refresh].tok = RefreshedToken(refresh)
                /\ token' = ops'[refresh].tok
                /\ cookie' = ops'[refresh].tok]_vars
    /\ [](\A r \in Reqs :
             (req[r].role = "owner" /\ Retried(r))
                 => /\ ops[req[r].op].st = "resolved"
                    /\ req[r].calls[2].hdr = <<"Bearer", ops[req[r].op].tok>>)

\* the owner of a refresh that succeeded has been retried, and the token and the
\* cookie still hold the token that refresh returned
C12_Witness ==
    \E r \in Reqs :
        /\ req[r].role = "owner" /\ Retried(r)
        /\ ops[req[r].op].st = "resolved"
        /\ token = ops[req[r].op].tok /\ cookie = token
        /\ req[r].calls[2].hdr = <<"Bearer", token>>

\* handleError classified the failure of r with a status that is not one it
\* refreshes for: any status but 401, or 401 without a refresh option
Unrefreshable(r) ==
    /\ req[r].fail.seen # NoStatus
    /\ req[r].fail.seen # UNAUTHORIZED \/ ~refreshOptions

NonFatalUnrefreshable(r) ==
    Unrefreshable(r) /\ req[r].fail.seen \in HTTP_NOT_FATAL_ERRORS

HeaderFor(h, t) ==
    /\ h # <<>> <=> t # NoToken
    /\ t # NoToken => h = <<"Bearer", t>>

\* C15: every step that sends a provider call (first attempt, retry, refresh call)
\* builds its header from this.token as it is at that moment: no header iff the
\* token is empty, else Bearer <token>; and the header of a retry is built anew,
\* from the refreshed token, so it differs from the header of the first attempt.
C15_HeadersFollowToken ==
    /\ [][/\ \A r \in Reqs :
                Len(req'[r].calls) > Len(req[r].calls)
                    => /\ Len(req'[r].calls) = Len(req[r].calls) + 1
                       /\ HeaderFor(req'[r].calls[Len(req'[r].calls)].hdr, token')
                       /\ req'[r].calls[Len(req'[r].calls)].tok = token'
          /\ Len(ops') > Len(ops)
                => /\ Len(ops') = Len(ops) + 1
                   /\ HeaderFor(ops'[Len(ops')].hdr, token')
                   /\ ops'[Len(ops')].sentTok = token']_vars
    /\ [](\A r \in Reqs :
             /\ \A k \in DOMAIN req[r].calls :
                   HeaderFor(req[r].calls[k].hdr, req[r].calls[k].tok)
             /\ Retried(r) => req[r].calls[2].hdr # req[r].calls[1].hdr)
    /\ [](\A i \in DOMAIN ops : HeaderFor(ops[i].hdr, ops[i].sentTok))

\* a request sent with the initial token has been retried with the refreshed one,
\* after a refresh call that carried the initial token
C15_Witness ==
    \E r \in Reqs :
        /\ Retried(r) /\ req[r].role = "owner"
        /\ req[r].calls[1].hdr = <<"Bearer", InitialToken>>
        /\ ops[req[r].op].hdr = <<"Bearer", InitialToken>>
        /\ req[r].calls[2].hdr = <<"Bearer", RefreshedToken(req[r].op)>>

\* C16: when every queued microtask runs and the provider answers every call, each
\* request that was made settles, each caller awaiting a refresh promise resumes,
\* this.refresh becomes null again, and no caller is left awaiting a promise that
\* has settled.
C16_EverythingSettles ==
    /\ \A r \in Reqs : (req[r].pc # "idle") ~> (req[r].pc = "done" /\ req[r].out # "none")
    /\ \A r \in Reqs : Waiting(r) ~> ~Waiting(r)
    /\ (refresh # NoRefresh) ~> (refresh = NoRefresh)
    /\ \A r \in Reqs :
          (/\ req[r].pc = "preflight" /\ ops[req[r].pre].st # "pending") ~> ~Waiting(r)
    /\ \A r \in Reqs :
          (/\ req[r].pc \in {"owner", "follower"} /\ ops[req[r].op].st # "pending")
              ~> ~Waiting(r)

\* every request has settled, one of them after a pre-flight wait and the other
\* after owning the refresh, and this.refresh is null
C16_Witness ==
    /\ \A r \in Reqs : req[r].pc = "done"
    /\ refresh = NoRefresh /\ jobs = <<>> /\ waiters = <<>>
    /\ \E r, q \in Reqs : req[r].pre # NoRefresh /\ req[q].role = "owner"

\* C17: a request that waited at pre-flight on a refresh that failed has, once it
\* resumed, rejected with the error of the refresh call, made no provider call,
\* not navigated and joined no refresh; navigate is called by owners only.
C17_PreflightWaiterRejects ==
    /\ \A r \in Reqs :
          (/\ req[r].pre # NoRefresh
           /\ ops[req[r].pre].st = "rejected"
           /\ req[r].pc # "preflight")
              => /\ req[r].pc = "done" /\ req[r].out = "rejected"
                 /\ req[r].err = ops[req[r].pre].err /\ req[r].err.src = "refresh"
                 /\ req[r].calls = <<>>
                 /\ ~req[r].navd
                 /\ req[r].op = NoRefresh /\ req[r].role = "none"
    /\ navCount = Cardinality({r \in Reqs : req[r].navd})
    /\ \A r \in Reqs : req[r].navd => req[r].role = "owner"

\* a pre-flight waiter has rejected with the 500 of the refresh it waited on
C17_Witness ==
    \E r \in Reqs :
        /\ req[r].pre # NoRefresh /\ ops[req[r].pre].st = "rejected"
        /\ req[r].pc = "done" /\ req[r].err.status = 500

\* the promise that r, one of the callers awaiting a promise, awaits
Awaited(r) == IF req[r].pc = "preflight" THEN req[r].pre ELSE req[r].op

\* C18: the step in which a refresh call fails leaves this.token and the cookie as
\* they are, which is as they were when the refresh call was sent, and changes
\* this.refresh to null, settling the promise and touching no request; no step
\* taken while a refresh is pending, other than its success, changes the token or
\* the cookie; a caller resuming from a failed refresh changes neither, nor
\* this.refresh; and the step that handles a failure whose status is not 401
\* changes none of the token, the cookie, this.refresh and the refresh promises.
C18_FailureFrame ==
    /\ [][(refresh # NoRefresh /\ ops'[refresh].st = "rejected")
             => /\ token' = token /\ token' = ops[refresh].sentTok
                /\ cookie' = cookie
                /\ refresh' = NoRefresh
                /\ req' = req /\ navCount' = navCount]_vars
    /\ [][(refresh # NoRefresh /\ ops'[refresh].st # "resolved")
             => (token' = token /\ cookie' = cookie)]_vars
    /\ [][(jobs # <<>> /\ req[Head(jobs)].pc # "retry" /\ ops[Awaited(Head(jobs))].st = "rejected")
             => (token' = token /\ cookie' = cookie /\ refresh' = refresh /\ ops' = ops)]_vars
    /\ [][\A r \in Reqs :
             (/\ req[r].pc = "sent"
              /\ req'[r].fail # req[r].fail
              /\ req'[r].fail.seen # UNAUTHORIZED)
                 => (token' = token /\ cookie' = cookie /\ refresh' = refresh /\ ops' = ops)]_vars
    /\ [](refresh # NoRefresh => token = ops[refresh].sentTok)

\* a refresh sent with the initial token has failed and its waiters have resumed,
\* a failure with status 500 has been handled, and the token is still the initial one
C18_Witness ==
    /\ refresh = NoRefresh /\ jobs = <<>>
    /\ token = InitialToken
    /\ \E i \in FailedOps : ops[i].sentTok = InitialToken
    /\ \E r \in Reqs : req[r].fail.seen = 500 /\ req[r].pc = "done"

\* the promises of handleRefreshToken whose refresh call succeeded
ResolvedOps == {i \in DOMAIN ops : ops[i].st = "resolved"}

\* the latest of them
LatestResolved == CHOOSE i \in ResolvedOps : \A j \in ResolvedOps : j <= i

\* C19: once a refresh has succeeded, whenever none is pending, this.token equals
\* the cookie and both hold the token of the latest successful refresh, also while
\* callers of an earlier refresh have yet to resume; and every caller that has
\* resumed from a successful refresh adopted a token no newer refresh had replaced.
C19_TokenMirrorsCookie ==
    /\ (ResolvedOps # {} /\ refresh = NoRefresh)
          => /\ token = cookie
             /\ token = ops[LatestResolved].tok
             /\ token = RefreshedToken(LatestResolved)
    /\ \A r \in Reqs :
          /\ (req[r].preTok # NoToken /\ req[r].pc = "sent" /\ Len(req[r].calls) = 1)
                => req[r].calls[1].tok = req[r].preTok
          /\ req[r].pc = "retry" => (req[r].opTok = token /\ req[r].op = LatestResolved)
    /\ \A r \in Reqs :
          (Waiting(r) /\ Awaited(r) \in ResolvedOps) => Awaited(r) = LatestResolved

\* two refreshes have succeeded one after the other, every caller has resumed and
\* the token and the cookie hold the token of the second
C19_Witness ==
    /\ Len(ops) = 2 /\ ResolvedOps = {1, 2}
    /\ refresh = NoRefresh /\ jobs = <<>>
    /\ token = RefreshedToken(2) /\ cookie = RefreshedToken(2)
====
